---- MODULE Spec2Model ----
(***************************************************************************)
(* EasyAliasNG.FCMacro.py: aliases for spreadsheet cells derived from the  *)
(* text of the cell to their left.                                         *)
(*                                                                         *)
(* A Python str is a sequence of one-character strings.  The non-ASCII     *)
(* keys of REPLACEMENTS are written "a_uml", "o_uml", "u_uml", "A_uml",    *)
(* "O_uml", "U_uml" and "sz"; each stands for one character.               *)
(***************************************************************************)
EXTENDS Integers, Sequences, FiniteSets, TLC

VARIABLES
    pc,             \* position of main(): start, cells, fallback, sheets, done, crashed
    selection,      \* the host's GUI selection: <<[Object, SubElementNames], ...>>
    cell_pairs,     \* main: the (spreadsheet, cell) pairs still to be processed
    spreadsheets,   \* main: the sheets of getSpreadsheets() not yet iterated
    views,          \* the host's spreadsheet views: sheet -> selected cells
    hostLog,        \* every host call main() made, in order
    processed,      \* number of process_cell calls so far
    cpc,            \* codec run: idle, encoding, encoded, decoded, back
    c_label,        \* codec run: the label given to a1_to_rowcol
    c_row,          \* codec run: row given to rowcol_to_a1
    c_column,       \* codec run: column given to rowcol_to_a1
    dividend,       \* rowcol_to_a1: loop variable
    column_label,   \* rowcol_to_a1: loop variable
    c_result,       \* codec run: what the last call returned
    c_origin,       \* codec run: "label" or "rowcol", the kind of the first input
    d_text,         \* textToAlias run: the text
    d_alias,        \* textToAlias run: whether it returned, and the alias
    k_outcome,      \* set_alias_with_diagnostics run: what setAlias does
    k_result        \* set_alias_with_diagnostics run: its events and return value

vars == <<pc, selection, cell_pairs, spreadsheets, views, hostLog, processed,
          cpc, c_label, c_row, c_column, dividend, column_label, c_result, c_origin,
          d_text, d_alias, k_outcome, k_result>>

driverVars == <<pc, selection, cell_pairs, spreadsheets, views, hostLog, processed>>
codecVars == <<cpc, c_label, c_row, c_column, dividend, column_label, c_result, c_origin>>
deriveVars == <<d_text, d_alias>>
classifyVars == <<k_outcome, k_result>>
notDriver == <<codecVars, deriveVars, classifyVars>>

None == [raised |-> FALSE, value |-> <<>>]    \* no call has returned yet

----------------------------------------------------------------------------
(* Bounds of the model *)

MaxLabelLen == 4    \* longest label handed to a1_to_rowcol
MaxRow == 12        \* largest row handed to rowcol_to_a1
MaxCol == 56        \* largest column of the contiguous range handed to rowcol_to_a1
MaxNeg == 2         \* rows and columns down to -MaxNeg are handed to rowcol_to_a1
MaxLoop == 5        \* rowcol_to_a1's loop is followed for at most this many letters
MaxTextLen == 4     \* longest text handed to textToAlias
MaxFrags == 3       \* a host error message is made of at most this many fragments
MaxSel == 2         \* at most this many objects are selected

----------------------------------------------------------------------------
(* Python str and int primitives *)

UPPER == <<"A","B","C","D","E","F","G","H","I","J","K","L","M",
           "N","O","P","Q","R","S","T","U","V","W","X","Y","Z">>
LOWER == <<"a","b","c","d","e","f","g","h","i","j","k","l","m",
           "n","o","p","q","r","s","t","u","v","w","x","y","z">>
DIGITS == <<"0","1","2","3","4","5","6","7","8","9">>

Range(s) == {s[i] : i \in 1..Len(s)}
IndexOf(c, s) == CHOOSE i \in 1..Len(s) : s[i] = c

IsUpper(c) == c \in Range(UPPER)
IsLower(c) == c \in Range(LOWER)
IsLetter(c) == IsUpper(c) \/ IsLower(c)
IsDigit(c) == c \in Range(DIGITS)

\* str.upper() and str.lower(), character by character
upper_c(c) == IF IsLower(c) THEN UPPER[IndexOf(c, LOWER)] ELSE c
lower_c(c) == IF IsUpper(c) THEN LOWER[IndexOf(c, UPPER)] ELSE c
upper(s) == [i \in 1..Len(s) |-> upper_c(s[i])]
lower(s) == [i \in 1..Len(s) |-> lower_c(s[i])]

\* ord() of an upper-case letter and chr() of a code in 65..90
ord(c) == 64 + IndexOf(c, UPPER)
chr(n) == UPPER[n - 64]

\* needle in hay
Contains(needle, hay) ==
    \E i \in 1..(Len(hay) - Len(needle) + 1) :
        SubSeq(hay, i, i + Len(needle) - 1) = needle

RECURSIVE Pow(_, _)
Pow(b, e) == IF e = 0 THEN 1 ELSE b * Pow(b, e - 1)

\* int() of a run of decimal digits
RECURSIVE int(_)
int(ds) ==
    IF ds = <<>> THEN 0
    ELSE 10 * int(SubSeq(ds, 1, Len(ds) - 1)) + (IndexOf(ds[Len(ds)], DIGITS) - 1)

\* "{}".format(n) of an int
RECURSIVE str_nat(_)
str_nat(n) ==
    IF n < 10 THEN <<DIGITS[n + 1]>>
    ELSE str_nat(n \div 10) \o <<DIGITS[(n % 10) + 1]>>
str(n) == IF n < 0 THEN <<"-">> \o str_nat(0 - n) ELSE str_nat(n)

\* length of the longest run of characters of the set S in s, from position i
RECURSIVE Run(_, _, _)
Run(s, i, S) ==
    IF i <= Len(s) /\ s[i] \in S THEN 1 + Run(s, i + 1, S) ELSE 0

----------------------------------------------------------------------------
(* Module constants *)

MAGIC_NUMBER == 64

\* REPLACEMENTS, in the dict's insertion order
REPLACEMENTS ==
    << <<" ", <<"_">> >>,
       <<".", <<"_">> >>,
       <<"a_uml", <<"a","e">> >>,
       <<"o_uml", <<"o","e">> >>,
       <<"u_uml", <<"u","e">> >>,
       <<"A_uml", <<"A","e">> >>,
       <<"O_uml", <<"O","e">> >>,
       <<"U_uml", <<"U","e">> >>,
       <<"sz", <<"s","s">> >>,
       <<"'", <<>> >> >>

\* CELL_ADDR_RE.match(label): r"([A-Za-z]+)([1-9]\d*)" matched at the start of
\* label (re.match does not require the match to reach the end).  Both groups
\* are greedy; giving back letters never helps, since the character after a
\* shorter letter run is a letter.  groups = <<group(1), group(2)>>.
CELL_ADDR_RE_match(label) ==
    LET nl == Run(label, 1, Range(UPPER) \cup Range(LOWER))
        nd == Run(label, nl + 1, Range(DIGITS))
    IN  IF nl >= 1 /\ nd >= 1 /\ label[nl + 1] # "0"
        THEN [matched |-> TRUE,
              groups |-> <<SubSeq(label, 1, nl), SubSeq(label, nl + 1, nl + nd)>>]
        ELSE [matched |-> FALSE, groups |-> <<>>]

\* the pattern with a lazy prefix, r".*?\((.*)\)": the first "(" is taken
CUSTOM_ALIAS_RE_match_lazy(text) ==
    LET n == Run(text, 1, Range(text) \ {"\n"})
        closes == {j \in 1..n : text[j] = ")"}
        opens == {i \in 1..n : text[i] = "(" /\ \E j \in closes : j > i}
    IN  IF opens = {} THEN [matched |-> FALSE, groups |-> <<>>]
        ELSE LET i == CHOOSE a \in opens : \A b \in opens : a <= b
                 j == CHOOSE a \in closes : \A b \in closes : b <= a
             IN  [matched |-> TRUE, groups |-> <<SubSeq(text, i + 1, j - 1)>>]

\* CUSTOM_ALIAS_RE.match(text): r".*\((.*)\)" matched at the start of text.
\* "." matches any character but "\n", so the whole match lies in the first
\* line.  The leading ".*" is greedy: the "(" taken is the last one of the
\* line that still has a ")" after it; the group is greedy: it runs to the
\* last ")" of the line.  groups = <<group(1)>>.
CUSTOM_ALIAS_RE_match(text) ==
    LET n == Run(text, 1, Range(text) \ {"\n"})
        closes == {j \in 1..n : text[j] = ")"}
        opens == {i \in 1..n : text[i] = "(" /\ \E j \in closes : j > i}
    IN  IF opens = {} THEN [matched |-> FALSE, groups |-> <<>>]
        ELSE LET i == CHOOSE a \in opens : \A b \in opens : b <= a
                 j == CHOOSE a \in closes : \A b \in closes : b <= a
             IN  [matched |-> TRUE, groups |-> <<SubSeq(text, i + 1, j - 1)>>]

----------------------------------------------------------------------------
(* CoordinateCodec: a1_to_rowcol and rowcol_to_a1 *)

\* What a call gives back: a value, or the exception it raised.
Return(v) == [raised |-> FALSE, value |-> v]
Raise(e) == [raised |-> TRUE, value |-> <<e>>]

\* the column loop of a1_to_rowcol: sum over enumerate(reversed(column_label))
RECURSIVE column_of(_, _)
column_of(letters, i) ==
    IF i >= Len(letters) THEN 0
    ELSE (ord(letters[Len(letters) - i]) - MAGIC_NUMBER) * Pow(26, i)
         + column_of(letters, i + 1)

\* a1_to_rowcol(label).  When the pattern does not match, match is None and
\* match.group(2) raises AttributeError.
a1_to_rowcol(label) ==
    LET match == CELL_ADDR_RE_match(label)
    IN  IF ~match.matched THEN Raise("AttributeError")
        ELSE LET row == int(match.groups[2])
                 letters == upper(match.groups[1])
             IN  Return(<<row, column_of(letters, 0)>>)

\* the loop body without the borrow of line 202 (dividend -= 1)
rowcol_loop_body_no_borrow(dvd, label) ==
    LET q == dvd \div 26
        mod == dvd % 26
    IN  IF mod = 0
        THEN [dividend |-> q, column_label |-> <<chr(26 + MAGIC_NUMBER)>> \o label]
        ELSE [dividend |-> q, column_label |-> <<chr(mod + MAGIC_NUMBER)>> \o label]

\* one iteration of rowcol_to_a1's while loop; divmod() floors, as \div and % do
rowcol_loop_body(dvd, label) ==
    LET q == dvd \div 26
        mod == dvd % 26
    IN  IF mod = 0
        THEN [dividend |-> q - 1, column_label |-> <<chr(26 + MAGIC_NUMBER)>> \o label]
        ELSE [dividend |-> q, column_label |-> <<chr(mod + MAGIC_NUMBER)>> \o label]

\* the statement after the loop: label = "{}{}".format(column_label, row)
rowcol_format(label, row) == label \o str(row)

\* rowcol_to_a1(row, column) for a column >= 0, where the loop ends
RECURSIVE rowcol_while(_, _)
rowcol_while(dvd, label) ==
    IF dvd = 0 THEN label
    ELSE LET s == rowcol_loop_body(dvd, label)
         IN  rowcol_while(s.dividend, s.column_label)
rowcol_to_a1(row, column) == rowcol_format(rowcol_while(column, <<>>), row)

----------------------------------------------------------------------------
(* AliasTextDeriver: textToAlias *)

\* text.replace(character, replacement)
RECURSIVE replace(_, _, _)
replace(text, character, replacement) ==
    IF text = <<>> THEN <<>>
    ELSE (IF Head(text) = character THEN replacement ELSE <<Head(text)>>)
         \o replace(Tail(text), character, replacement)

\* for character in REPLACEMENTS: text = text.replace(character, ...)
RECURSIVE replace_from(_, _)
replace_from(text, k) ==
    IF k > Len(REPLACEMENTS) THEN text
    ELSE replace_from(replace(text, REPLACEMENTS[k][1], REPLACEMENTS[k][2]), k + 1)

textToAlias(text) ==
    LET match == CUSTOM_ALIAS_RE_match(text)
    IN  IF match.matched THEN match.groups[1]
        ELSE replace_from(text, 1)

----------------------------------------------------------------------------
(* ErrorClassifier: set_alias_with_diagnostics *)

\* One call of the host, as main() made it.  text is the alias (setAlias,
\* message boxes) or the contents read (getContents); msg the host's error
\* message; title the message box's title; entry the process_cell call
\* that made it (0 outside process_cell).
Event(op, sheet, cell, text, ok, title, msg) ==
    [op |-> op, sheet |-> sheet, cell |-> cell, text |-> text, ok |-> ok,
     title |-> title, msg |-> msg, entry |-> 0]

S_invalid == <<"i","n","v","a","l","i","d">>
S_character == <<"c","h","a","r","a","c","t","e","r">>
S_already_in_use == <<"a","l","r","e","a","d","y"," ","i","n"," ","u","s","e">>
S_already_defined == <<"a","l","r","e","a","d","y"," ","d","e","f","i","n","e","d">>
S_duplicate == <<"d","u","p","l","i","c","a","t","e">>

\* set_alias_with_diagnostics without its try/except: the host's exception
\* leaves the function
set_alias_unguarded(spreadsheet, nextCell, alias, outcome) ==
    [ret |-> outcome.ok, raised |-> ~outcome.ok,
     events |-> <<Event("setAlias", spreadsheet, nextCell, alias, outcome.ok, "",
                        outcome.msg)>>]

\* set_alias_with_diagnostics with the duplicate test before the
\* invalid-character test
set_alias_duplicate_first(spreadsheet, nextCell, alias, outcome) ==
    LET call == Event("setAlias", spreadsheet, nextCell, alias, outcome.ok, "", outcome.msg)
        msg == outcome.msg
        msg_lower == lower(msg)
        box(severity, title) ==
            Event(severity, spreadsheet, nextCell, alias, FALSE, title, msg)
    IN  IF outcome.ok THEN [ret |-> TRUE, raised |-> FALSE, events |-> <<call>>]
        ELSE IF \/ Contains(S_already_in_use, msg_lower)
                \/ Contains(S_already_defined, msg_lower)
                \/ Contains(S_duplicate, msg_lower)
        THEN [ret |-> FALSE, raised |-> FALSE,
              events |-> <<call, box("warning", "Duplicate alias")>>]
        ELSE IF Contains(S_invalid, msg_lower) /\ Contains(S_character, msg_lower)
        THEN [ret |-> FALSE, raised |-> FALSE,
              events |-> <<call, box("critical", "Invalid alias")>>]
        ELSE [ret |-> FALSE, raised |-> FALSE,
              events |-> <<call, box("critical", "Alias error")>>]

\* set_alias_with_diagnostics(spreadsheet, nextCell, alias), where the host's
\* setAlias does `outcome`: [ok |-> TRUE] or raises Exception(outcome.msg).
\* The three message texts are formatted from alias, cell, sheet and msg.
set_alias_with_diagnostics(spreadsheet, nextCell, alias, outcome) ==
    LET call == Event("setAlias", spreadsheet, nextCell, alias, outcome.ok, "", outcome.msg)
        msg == outcome.msg
        msg_lower == lower(msg)
        box(severity, title) ==
            Event(severity, spreadsheet, nextCell, alias, FALSE, title, msg)
    IN  IF outcome.ok THEN [ret |-> TRUE, raised |-> FALSE, events |-> <<call>>]
        ELSE IF Contains(S_invalid, msg_lower) /\ Contains(S_character, msg_lower)
        THEN [ret |-> FALSE, raised |-> FALSE,
              events |-> <<call, box("critical", "Invalid alias")>>]
        ELSE IF \/ Contains(S_already_in_use, msg_lower)
                \/ Contains(S_already_defined, msg_lower)
                \/ Contains(S_duplicate, msg_lower)
        THEN [ret |-> FALSE, raised |-> FALSE,
              events |-> <<call, box("warning", "Duplicate alias")>>]
        ELSE [ret |-> FALSE, raised |-> FALSE,
              events |-> <<call, box("critical", "Alias error")>>]

----------------------------------------------------------------------------
(* The host: document objects, selection, views, cell contents, setAlias *)

\* The objects of the active document: two sheets, a link to a sheet, a
\* part and a link to the part.
Objects == {"Sheet", "Sheet001", "Link", "Box", "LinkBox"}
TypeId(o) ==
    CASE o \in {"Sheet", "Sheet001"} -> "Spreadsheet::Sheet"
      [] o \in {"Link", "LinkBox"} -> "App::Link"
      [] OTHER -> "Part::Box"
LinkedObject(o) ==
    CASE o = "Link" -> "Sheet"
      [] o = "LinkBox" -> "Box"
      [] OTHER -> o

B3 == <<"B","3">>
C3 == <<"C","3">>
Z1 == <<"Z","1">>
AA1 == <<"A","A","1">>

\* The sub-element names a selected object may carry: none, a cell, or a
\* name that is no cell address followed by a cell.
SubNameLists == {<<>>, <<B3>>, << <<"3","B">>, Z1 >>}

SelectionItems == [Object : Objects, SubElementNames : SubNameLists]

RECURSIVE SeqsUpTo(_, _)
SeqsUpTo(S, n) ==
    IF n = 0 THEN {<<>>}
    ELSE LET shorter == SeqsUpTo(S, n - 1)
         IN  shorter \cup {Append(q, x) : q \in shorter, x \in S}

Selections == SeqsUpTo(SelectionItems, MaxSel)

\* What the sheets' views report as selected cells (selectedCells()).
ViewConfigs ==
    { [Sheet |-> <<>>, Sheet001 |-> <<>>],
      [Sheet |-> <<B3, Z1>>, Sheet001 |-> <<>>],
      [Sheet |-> <<B3>>, Sheet001 |-> <<Z1>>],
      [Sheet |-> <<>>, Sheet001 |-> <<B3>>] }

\* What getContents may return: nothing, a plain text, a text with an alias
\* in parentheses.
CellTexts == {<<>>, <<"r"," ","1">>, <<"R"," ","(","r",")">>}

HostMessages == {<<"I","n","v","a","l","i","d"," ","c","h","a","r","a","c","t","e","r">>, <<"A","l","i","a","s"," ","a","l","r","e","a","d","y"," ","d","e","f","i","n","e","d">>, <<"E","r","r","o","r">>}

Ok == [ok |-> TRUE, msg |-> <<>>]
Fail(msg) == [ok |-> FALSE, msg |-> msg]
HostOutcomes == {Ok} \cup {Fail(m) : m \in HostMessages}

----------------------------------------------------------------------------
(* SelectionResolver: iter_selected_spreadsheet_cells and getSpreadsheets *)

\* for sub_name in sel.SubElementNames: if CELL_ADDR_RE.match(sub_name): ...
RECURSIVE matching_pairs(_, _)
matching_pairs(obj, names) ==
    IF names = <<>> THEN <<>>
    ELSE (IF CELL_ADDR_RE_match(Head(names)).matched
          THEN << <<obj, Head(names)>> >> ELSE <<>>)
         \o matching_pairs(obj, Tail(names))

RECURSIVE iter_selected_spreadsheet_cells(_)
iter_selected_spreadsheet_cells(sel) ==
    IF sel = <<>> THEN <<>>
    ELSE LET o == Head(sel).Object
             obj == IF TypeId(o) = "App::Link" THEN LinkedObject(o) ELSE o
         IN  (IF TypeId(obj) # "Spreadsheet::Sheet" THEN <<>>
              ELSE matching_pairs(obj, Head(sel).SubElementNames))
             \o iter_selected_spreadsheet_cells(Tail(sel))

\* Gui.Selection.getSelection(): the selected objects
getSelection(sel) == [i \in 1..Len(sel) |-> sel[i].Object]

getSpreadsheets(sel) ==
    LET objs == getSelection(sel)
    IN  {objs[i] : i \in {j \in 1..Len(objs) : TypeId(objs[j]) = "Spreadsheet::Sheet"}}
        \cup {LinkedObject(objs[i]) :
                i \in {j \in 1..Len(objs) :
                         /\ TypeId(objs[j]) = "App::Link"
                         /\ TypeId(LinkedObject(objs[j])) = "Spreadsheet::Sheet"}}

----------------------------------------------------------------------------
(* CellProcessor: process_cell *)

\* process_cell aiming at the label cell itself (column, not column + 1)
process_cell_same_column(spreadsheet, selectedCell, contents, outcome) ==
    LET read == Event("getContents", spreadsheet, selectedCell, contents, TRUE, "", <<>>)
    IN  IF contents = <<>> THEN [raised |-> FALSE, events |-> <<read>>]
        ELSE LET alias == textToAlias(contents)
                 rc == a1_to_rowcol(selectedCell)
             IN  IF rc.raised THEN [raised |-> TRUE, events |-> <<read>>]
                 ELSE LET nextCell == rowcol_to_a1(rc.value[1], rc.value[2])
                          r == set_alias_with_diagnostics(spreadsheet, nextCell,
                                                           alias, outcome)
                      IN  [raised |-> r.raised, events |-> <<read>> \o r.events]

\* process_cell(spreadsheet, selectedCell), where getContents returns
\* `contents` and setAlias does `outcome`: the host calls made, and whether
\* an exception left the function.
process_cell(spreadsheet, selectedCell, contents, outcome) ==
    LET read == Event("getContents", spreadsheet, selectedCell, contents, TRUE, "", <<>>)
    IN  IF contents = <<>> THEN [raised |-> FALSE, events |-> <<read>>]
        ELSE LET alias == textToAlias(contents)
                 rc == a1_to_rowcol(selectedCell)
             IN  IF rc.raised THEN [raised |-> TRUE, events |-> <<read>>]
                 ELSE LET nextCell == rowcol_to_a1(rc.value[1], rc.value[2] + 1)
                          r == set_alias_with_diagnostics(spreadsheet, nextCell,
                                                           alias, outcome)
                      IN  [raised |-> r.raised, events |-> <<read>> \o r.events]

----------------------------------------------------------------------------
(* The top-level driver: main() *)

IdleCodec ==
    /\ cpc = "off" /\ c_label = <<>> /\ c_row = 0 /\ c_column = 0
    /\ dividend = 0 /\ column_label = <<>> /\ c_result = None /\ c_origin = "none"
IdleDerive == d_text = <<>> /\ d_alias = [returned |-> FALSE, value |-> <<>>]
IdleClassify ==
    /\ k_outcome = Ok
    /\ k_result = [ret |-> FALSE, raised |-> FALSE, events |-> <<>>]
IdleDriver ==
    /\ pc = "off" /\ selection = <<>> /\ cell_pairs = <<>> /\ spreadsheets = {}
    /\ views = [Sheet |-> <<>>, Sheet001 |-> <<>>] /\ hostLog = <<>> /\ processed = 0

Init ==
    /\ pc = "start"
    /\ selection \in Selections
    /\ cell_pairs = <<>>
    /\ spreadsheets = {}
    /\ views = [Sheet |-> <<>>, Sheet001 |-> <<>>]
    /\ hostLog = <<>>
    /\ processed = 0
    /\ IdleCodec /\ IdleDerive /\ IdleClassify

HostCall(op, sheet) == Event(op, sheet, <<>>, <<>>, TRUE, "", <<>>)
Tag(events, n) == [i \in 1..Len(events) |-> [events[i] EXCEPT !.entry = n]]

\* main, line 222 and the test of line 224
ResolveCells ==
    /\ pc = "start"
    /\ hostLog' = Append(hostLog, HostCall("getSelectionEx", ""))
    /\ cell_pairs' = iter_selected_spreadsheet_cells(selection)
    /\ pc' = IF cell_pairs' # <<>> THEN "cells" ELSE "fallback"
    /\ UNCHANGED <<selection, spreadsheets, views, processed, notDriver>>

\* main, lines 225-226 and 242-243: one pass of either loop over the
\* cells.  An exception leaving process_cell leaves main.
ProcessCell ==
    /\ pc \in {"cells", "sheets"}
    /\ cell_pairs # <<>>
    /\ \E contents \in CellTexts, outcome \in HostOutcomes :
         LET r == process_cell(Head(cell_pairs)[1], Head(cell_pairs)[2],
                               contents, outcome)
         IN  /\ hostLog' = hostLog \o Tag(r.events, processed + 1)
             /\ pc' = IF r.raised THEN "crashed" ELSE pc
    /\ processed' = processed + 1
    /\ cell_pairs' = Tail(cell_pairs)
    /\ UNCHANGED <<selection, spreadsheets, views, notDriver>>

\* lines 227-228 without the return: main goes on to the fallback
RecomputeCells_no_return ==
    /\ pc = "cells"
    /\ cell_pairs = <<>>
    /\ hostLog' = Append(hostLog, HostCall("recompute", ""))
    /\ pc' = "fallback"
    /\ UNCHANGED <<selection, cell_pairs, spreadsheets, views, processed, notDriver>>

\* main, lines 227-228
RecomputeCells ==
    /\ pc = "cells"
    /\ cell_pairs = <<>>
    /\ hostLog' = Append(hostLog, HostCall("recompute", ""))
    /\ pc' = "done"
    /\ UNCHANGED <<selection, cell_pairs, spreadsheets, views, processed, notDriver>>

\* main, lines 231-239.  The views' selected cells are fixed from here on.
GetSpreadsheets ==
    /\ pc = "fallback"
    /\ LET found == getSpreadsheets(selection)
       IN  IF found = {}
           THEN /\ hostLog' = hostLog \o
                       << HostCall("getSelection", ""),
                          Event("critical", "", <<>>, <<>>, FALSE, "Error", <<>>) >>
                /\ pc' = "done"
                /\ UNCHANGED <<spreadsheets, views>>
           ELSE /\ hostLog' = Append(hostLog, HostCall("getSelection", ""))
                /\ spreadsheets' = found
                /\ views' \in ViewConfigs
                /\ pc' = "sheets"
    /\ UNCHANGED <<selection, cell_pairs, processed, notDriver>>

\* main, lines 241-242: the next sheet of the set, in any order, and its
\* view's selected cells
NextSheet ==
    /\ pc = "sheets"
    /\ cell_pairs = <<>>
    /\ \E spreadsheet \in spreadsheets :
         /\ hostLog' = Append(hostLog, HostCall("selectedCells", spreadsheet))
         /\ cell_pairs' = [i \in 1..Len(views[spreadsheet]) |->
                              <<spreadsheet, views[spreadsheet][i]>>]
         /\ spreadsheets' = spreadsheets \ {spreadsheet}
    /\ UNCHANGED <<pc, selection, views, processed, notDriver>>

\* main, line 245
RecomputeSheets ==
    /\ pc = "sheets"
    /\ cell_pairs = <<>>
    /\ spreadsheets = {}
    /\ hostLog' = Append(hostLog, HostCall("recompute", ""))
    /\ pc' = "done"
    /\ UNCHANGED <<selection, cell_pairs, spreadsheets, views, processed, notDriver>>

Next ==
    \/ ResolveCells
    \/ ProcessCell
    \/ RecomputeCells
    \/ GetSpreadsheets
    \/ NextSheet
    \/ RecomputeSheets

Spec == Init /\ [][Next]_vars

----------------------------------------------------------------------------
(* What a run of main() is expected to resolve, stated on the host's state *)

SheetLike == {"Sheet", "Sheet001", "Link"}      \* sheets and links to sheets
SheetOf(o) == IF o = "Link" THEN "Sheet" ELSE o
CellNames == {B3, Z1}                            \* the names that are cell labels

\* the entries of the cell-level strategy, as (selection index, name index)
CellLevelEntries ==
    {e \in UNION {{<<i, j>> : j \in 1..Len(selection[i].SubElementNames)} :
                     i \in 1..Len(selection)} :
        /\ selection[e[1]].Object \in SheetLike
        /\ selection[e[1]].SubElementNames[e[2]] \in CellNames}
CellLevelPairs ==
    {<<SheetOf(selection[e[1]].Object), selection[e[1]].SubElementNames[e[2]]>> :
        e \in CellLevelEntries}

\* the sheets of the sheet-level fallback and the number of its entries
SelectedSheets ==
    {SheetOf(selection[i].Object) :
        i \in {j \in 1..Len(selection) : selection[j].Object \in SheetLike}}
FallbackCount ==
    (IF "Sheet" \in SelectedSheets THEN Len(views["Sheet"]) ELSE 0)
    + (IF "Sheet001" \in SelectedSheets THEN Len(views["Sheet001"]) ELSE 0)

ResolvedCount ==
    IF CellLevelEntries # {} THEN Cardinality(CellLevelEntries) ELSE FallbackCount

LogOf(op) == {i \in 1..Len(hostLog) : hostLog[i].op = op}
LogOfEntry(op, n) == {i \in LogOf(op) : hostLog[i].entry = n}
FailedAt(n) == \E i \in LogOfEntry("setAlias", n) : ~hostLog[i].ok
NonEmptyAt(n) == \E i \in LogOfEntry("getContents", n) : hostLog[i].text # <<>>

----------------------------------------------------------------------------
(* C1: isolation under failure *)

\* C1: once setAlias has failed for entry k, the run is not ended by it, and
\* when the run is over every later entry k+1..N has had its contents read
\* and, if the text was not empty, its setAlias attempted.
C1_IsolationUnderFailure ==
    \A k \in 1..processed :
        FailedAt(k) =>
            /\ pc # "crashed"
            /\ pc = "done" =>
                 \A j \in (k + 1)..ResolvedCount :
                     /\ LogOfEntry("getContents", j) # {}
                     /\ NonEmptyAt(j) => LogOfEntry("setAlias", j) # {}

\* a finished run in which entry 1 failed, and entry 2 was attempted after it
C1_Witness ==
    /\ pc = "done"
    /\ ResolvedCount >= 2
    /\ FailedAt(1)
    /\ LogOfEntry("setAlias", 2) # {}

----------------------------------------------------------------------------
(* C2: NoSelection reporting *)

NoSelectionReported ==
    \E i \in LogOf("critical") : hostLog[i].title = "Error"

\* C2: a finished run in which neither strategy yielded an entry has issued
\* the NoSelection critical notification.
C2_NoSelectionReported ==
    (pc = "done" /\ ResolvedCount = 0) => NoSelectionReported

----------------------------------------------------------------------------
(* C3: fallback ordering *)

\* C3: when the cell-level strategy yields an entry, getSelection and
\* selectedCells are never called, and the entries processed are the
\* cell-level entries and no others.
C3_FallbackOrdering ==
    CellLevelEntries # {} =>
        /\ LogOf("getSelection") = {}
        /\ LogOf("selectedCells") = {}
        /\ \A i \in LogOf("getContents") :
               <<hostLog[i].sheet, hostLog[i].cell>> \in CellLevelPairs
        /\ pc = "done" => processed = Cardinality(CellLevelEntries)

\* a finished run of the cell-level strategy with sheets selected, which the
\* fallback would have picked up
C3_Witness ==
    /\ pc = "done"
    /\ Cardinality(CellLevelEntries) >= 2
    /\ SelectedSheets = {"Sheet", "Sheet001"}

----------------------------------------------------------------------------
(* C4: recompute condition *)

\* C4: a finished run has requested recompute exactly when it processed at
\* least one entry: never with no entry processed, once otherwise, and as
\* its last host call.
C4_RecomputeIffProcessed ==
    pc = "done" =>
        IF processed = 0 THEN LogOf("recompute") = {}
        ELSE LogOf("recompute") = {Len(hostLog)}

----------------------------------------------------------------------------
(* C5: per-entry alias call *)

ExpectedTarget(cell) == IF cell = B3 THEN C3 ELSE IF cell = Z1 THEN AA1 ELSE <<>>
ExpectedAlias(text) ==
    IF text = <<"r"," ","1">> THEN <<"r","_","1">>
    ELSE IF text = <<"R"," ","(","r",")">> THEN <<"r">>
    ELSE <<>>

\* C5: an entry whose text is empty makes no setAlias call; any other entry
\* makes exactly one, right after reading the label cell, on the same sheet,
\* for the cell one column to the right in the same row (B3 -> C3,
\* Z1 -> AA1), with the alias derived from the text; there is no other
\* setAlias call.
C5_PerEntryAliasCall ==
    /\ \A i \in LogOf("setAlias") :
          /\ i > 1
          /\ hostLog[i - 1].op = "getContents"
          /\ hostLog[i - 1].entry = hostLog[i].entry
          /\ hostLog[i - 1].text # <<>>
          /\ hostLog[i].sheet = hostLog[i - 1].sheet
          /\ hostLog[i].cell = ExpectedTarget(hostLog[i - 1].cell)
          /\ hostLog[i].text = ExpectedAlias(hostLog[i - 1].text)
    /\ \A n \in 1..processed :
          /\ Cardinality(LogOfEntry("getContents", n)) = 1
          /\ Cardinality(LogOfEntry("setAlias", n)) = IF NonEmptyAt(n) THEN 1 ELSE 0

\* a run that skipped an empty label cell and set an alias on AA1 for Z1
C5_Witness ==
    /\ \E n \in 1..processed :
          LogOfEntry("getContents", n) # {} /\ ~NonEmptyAt(n)
    /\ \E i \in LogOf("setAlias") :
          hostLog[i].cell = AA1 /\ hostLog[i].text = <<"r">>

----------------------------------------------------------------------------
(* Runs of the coordinate codec on its own *)

LabelChars == {"A", "Z", "b", "0", "1", "9", "$"}
Labels == SeqsUpTo(LabelChars, MaxLabelLen)
Rows == (0 - MaxNeg)..MaxRow
EdgeCols == {676, 677, 702, 703, 704, 18278, 18279}    \* YZ, ZA, ZZ, AAA, AAB, ZZZ, AAAA
Cols == ((0 - MaxNeg)..MaxCol) \cup EdgeCols

InitCodec ==
    /\ IdleDriver /\ IdleDerive /\ IdleClassify
    /\ cpc = "idle"
    /\ c_origin \in {"label", "rowcol"}
    /\ IF c_origin = "label"
       THEN c_label \in Labels /\ c_row = 0 /\ c_column = 0
       ELSE c_label = <<>> /\ c_row \in Rows /\ c_column \in Cols
    /\ dividend = 0
    /\ column_label = <<>>
    /\ c_result = None

notCodec == <<driverVars, deriveVars, classifyVars>>

\* a1_to_rowcol(c_label)
DecodeCall ==
    /\ cpc = "idle"
    /\ c_origin = "label"
    /\ c_result' = a1_to_rowcol(c_label)
    /\ cpc' = IF c_result'.raised THEN "raised" ELSE "decoded"
    /\ UNCHANGED <<c_label, c_row, c_column, dividend, column_label, c_origin, notCodec>>

\* rowcol_to_a1, lines 193-197: of the given pair, or of the pair just decoded
EncodeCall ==
    /\ cpc = IF c_origin = "rowcol" THEN "idle" ELSE "decoded"
    /\ c_row' = IF c_origin = "rowcol" THEN c_row ELSE c_result.value[1]
    /\ c_column' = IF c_origin = "rowcol" THEN c_column ELSE c_result.value[2]
    /\ dividend' = c_column'
    /\ column_label' = <<>>
    /\ cpc' = "encoding"
    /\ UNCHANGED <<c_label, c_result, c_origin, notCodec>>

\* rowcol_to_a1, lines 198-203: one iteration of the loop
EncodeLoop ==
    /\ cpc = "encoding"
    /\ dividend # 0
    /\ Len(column_label) < MaxLoop
    /\ LET s == rowcol_loop_body(dividend, column_label)
       IN  dividend' = s.dividend /\ column_label' = s.column_label
    /\ UNCHANGED <<cpc, c_label, c_row, c_column, c_result, c_origin, notCodec>>

\* rowcol_to_a1, lines 205-207
EncodeReturn ==
    /\ cpc = "encoding"
    /\ dividend = 0
    /\ c_result' = Return(rowcol_format(column_label, c_row))
    /\ cpc' = "encoded"
    /\ UNCHANGED <<c_label, c_row, c_column, dividend, column_label, c_origin, notCodec>>

\* a1_to_rowcol of the label just encoded
DecodeBack ==
    /\ cpc = "encoded"
    /\ c_origin = "rowcol"
    /\ c_label' = c_result.value
    /\ c_result' = a1_to_rowcol(c_result.value)
    /\ cpc' = "back"
    /\ UNCHANGED <<c_row, c_column, dividend, column_label, c_origin, notCodec>>

NextCodec == DecodeCall \/ EncodeCall \/ EncodeLoop \/ EncodeReturn \/ DecodeBack

SpecCodec == InitCodec /\ [][NextCodec]_vars

----------------------------------------------------------------------------
(* Runs of textToAlias on its own *)

TextChars == {"a", " ", ".", "u_uml", "A_uml", "sz", "'", "(", ")", "\n"}
Texts == SeqsUpTo(TextChars, MaxTextLen)

InitDerive ==
    /\ IdleDriver /\ IdleCodec /\ IdleClassify
    /\ d_text \in Texts
    /\ d_alias = [returned |-> FALSE, value |-> <<>>]

Derive ==
    /\ ~d_alias.returned
    /\ d_alias' = [returned |-> TRUE, value |-> textToAlias(d_text)]
    /\ UNCHANGED <<d_text, driverVars, codecVars, classifyVars>>

NextDerive == Derive

SpecDerive == InitDerive /\ [][NextDerive]_vars

----------------------------------------------------------------------------
(* Runs of set_alias_with_diagnostics on its own *)

Fragments ==
    { <<"I","n","v","a","l","i","d">>, <<" ","c","h","a","r","a","c","t","e","r">>, <<"C","H","A","R","A","C","T","E","R","S"," ">>,
      <<"a","l","r","e","a","d","y"," ","i","n"," ","u","s","e">>, <<"A","l","r","e","a","d","y"," ","D","e","f","i","n","e","d">>,
      <<"D","u","p","l","i","c","a","t","e">>, <<"A","l","i","a","s"," ">>, <<"i","n">>, <<"v","a","l","i","d"," ">> }

RECURSIVE Concat(_)
Concat(ss) == IF ss = <<>> THEN <<>> ELSE Head(ss) \o Concat(Tail(ss))

Messages == {Concat(fs) : fs \in SeqsUpTo(Fragments, MaxFrags)}

InitClassify ==
    /\ IdleDriver /\ IdleCodec /\ IdleDerive
    /\ k_outcome \in {Ok} \cup {Fail(m) : m \in Messages}
    /\ k_result = [ret |-> FALSE, raised |-> FALSE, events |-> <<>>]

SetAlias ==
    /\ k_result.events = <<>>
    /\ \E spreadsheet \in {"Sheet", "Sheet001"}, nextCell \in {C3, AA1} :
         k_result' = set_alias_with_diagnostics(spreadsheet, nextCell,
                                                <<"r","_","1">>, k_outcome)
    /\ UNCHANGED <<k_outcome, driverVars, codecVars, deriveVars>>

NextClassify == SetAlias

SpecClassify == InitClassify /\ [][NextClassify]_vars

----------------------------------------------------------------------------
(* C6, C9, C10: the coordinate codec *)

\* a label: entirely one or more letters followed by a decimal number with
\* no leading zero
IsCellLabel(label) ==
    \E n \in 1..(Len(label) - 1) :
        /\ \A i \in 1..n : IsLetter(label[i])
        /\ \A i \in (n + 1)..Len(label) : IsDigit(label[i])
        /\ label[n + 1] # "0"

\* C6: decoding an encoded (row, column) with row, column >= 1 gives the
\* pair back; every label decodes, and encoding the decoded pair gives the
\* label in upper case; decode("Z1") = (1, 26), encode(1, 27) = "AA1",
\* decode("AA1") = (1, 27).
C6_CoordinateRoundTrip ==
    /\ (c_origin = "rowcol" /\ c_row >= 1 /\ c_column >= 1) =>
          /\ cpc = "encoding" => dividend = 0 \/ Len(column_label) < MaxLoop
          /\ cpc = "back" => ~c_result.raised /\ c_result.value = <<c_row, c_column>>
          /\ (cpc = "encoded" /\ c_row = 1 /\ c_column = 27) => c_result.value = AA1
    /\ (c_origin = "label" /\ IsCellLabel(c_label)) =>
          /\ cpc # "raised"
          /\ cpc = "encoding" => dividend = 0 \/ Len(column_label) < MaxLoop
          /\ cpc = "encoded" => c_result.value = upper(c_label)
          /\ (cpc = "decoded" /\ c_label = Z1) => c_result.value = <<1, 26>>
          /\ (cpc = "decoded" /\ c_label = AA1) => c_result.value = <<1, 27>>

\* the label bZ10 decoded to (10, 78) and encoded back to BZ10
C6_Witness ==
    /\ c_origin = "label"
    /\ c_label = <<"b","Z","1","0">>
    /\ cpc = "encoded"
    /\ c_row = 10 /\ c_column = 78
    /\ c_result.value = <<"B","Z","1","0">>

\* C9: decode of a string that is not, as a whole, a label fails and
\* returns no pair.
C9_MalformedLabelRejected ==
    (c_origin = "label" /\ cpc # "idle" /\ ~IsCellLabel(c_label)) => cpc = "raised"

\* C10: encode of a pair with row < 1 or column < 1 returns no label.
C10_InvalidCoordinateRejected ==
    (c_origin = "rowcol" /\ (c_row < 1 \/ c_column < 1)) => cpc \notin {"encoded", "back"}

----------------------------------------------------------------------------
(* C8: manual override precedence *)

HasParens(text) ==
    \E i \in 1..Len(text), j \in 1..Len(text) :
        i < j /\ text[i] = "(" /\ text[j] = ")"
FirstOf(c, text) == CHOOSE i \in 1..Len(text) :
    text[i] = c /\ \A k \in 1..(i - 1) : text[k] # c
LastOf(c, text) == CHOOSE i \in 1..Len(text) :
    text[i] = c /\ \A k \in (i + 1)..Len(text) : text[k] # c

\* the substitution table, character by character
Substitute(c) ==
    CASE c \in {" ", "."} -> <<"_">>
      [] c = "a_uml" -> <<"a", "e">>
      [] c = "o_uml" -> <<"o", "e">>
      [] c = "u_uml" -> <<"u", "e">>
      [] c = "A_uml" -> <<"A", "e">>
      [] c = "O_uml" -> <<"O", "e">>
      [] c = "U_uml" -> <<"U", "e">>
      [] c = "sz" -> <<"s", "s">>
      [] c = "'" -> <<>>
      [] OTHER -> <<c>>
Substituted(text) == Concat([i \in 1..Len(text) |-> Substitute(text[i])])

\* C8 as stated: a text with a "(" followed later by a ")" gives the
\* characters after its opening "(" up to the last ")" of the text,
\* verbatim; any other text gives the text with the table applied.
C8_OverrideFullContent ==
    d_alias.returned =>
        d_alias.value =
            IF HasParens(d_text)
            THEN SubSeq(d_text, FirstOf("(", d_text) + 1, LastOf(")", d_text) - 1)
            ELSE Substituted(d_text)

FirstLine(text) == SubSeq(text, 1, Run(text, 1, Range(text) \ {"\n"}))

\* C8 amended: when the first line of the text has a "(" followed later by
\* a ")", the alias is the part of that line between a "(" and a ")" that
\* holds no "(" and is followed by no further ")" of the line, verbatim;
\* any other text gives the text with the table applied.
C8_OverrideLastGroup ==
    d_alias.returned =>
        IF HasParens(FirstLine(d_text))
        THEN LET line == FirstLine(d_text)
             IN  \E i \in 1..Len(line), j \in 1..Len(line) :
                    /\ i < j /\ line[i] = "(" /\ line[j] = ")"
                    /\ d_alias.value = SubSeq(line, i + 1, j - 1)
                    /\ "(" \notin Range(d_alias.value)
                    /\ ")" \notin Range(SubSeq(line, j + 1, Len(line)))
        ELSE d_alias.value = Substituted(d_text)

\* an override taken from a text with table characters around and inside it
C8_Witness ==
    /\ d_alias.returned
    /\ d_text = <<" ","(",".",")">>
    /\ d_alias.value = <<".">>

----------------------------------------------------------------------------
(* C7: failure classification and severity *)

\* needle occurs in hay, letter case of hay ignored
OccursIgnoringCase(needle, hay) ==
    \E i \in 1..(Len(hay) - Len(needle) + 1) :
        \A k \in 1..Len(needle) :
            hay[i + k - 1] \in {needle[k], upper_c(needle[k])}

Category(msg) ==
    IF OccursIgnoringCase(S_invalid, msg) /\ OccursIgnoringCase(S_character, msg)
    THEN "InvalidCharacters"
    ELSE IF \E marker \in {S_already_in_use, S_already_defined, S_duplicate} :
                OccursIgnoringCase(marker, msg)
    THEN "DuplicateAlias"
    ELSE "Other"

SeverityOf(category) == IF category = "DuplicateAlias" THEN "warning" ELSE "critical"
TitleOf(category) ==
    CASE category = "InvalidCharacters" -> "Invalid alias"
      [] category = "DuplicateAlias" -> "Duplicate alias"
      [] OTHER -> "Alias error"

\* C7: a successful setAlias issues no notification; a failed one issues
\* exactly one, of the category its message selects (InvalidCharacters
\* before DuplicateAlias before Other), critical unless DuplicateAlias, and
\* carrying the host's message in its original case.
C7_FailureClassification ==
    k_result.events # <<>> =>
        LET events == k_result.events
        IN  /\ events[1].op = "setAlias"
            /\ ~k_result.raised
            /\ k_result.ret = k_outcome.ok
            /\ Len(events) = IF k_outcome.ok THEN 1 ELSE 2
            /\ ~k_outcome.ok =>
                 /\ events[2].op = SeverityOf(Category(k_outcome.msg))
                 /\ events[2].title = TitleOf(Category(k_outcome.msg))
                 /\ events[2].msg = k_outcome.msg
                 /\ events[2].text = events[1].text
                 /\ events[2].cell = events[1].cell
                 /\ events[2].sheet = events[1].sheet

\* a message with both the invalid-character and a duplicate marker, in
\* mixed case, reported as invalid characters
C7_Witness ==
    /\ k_outcome = Fail(<<"D","u","p","l","i","c","a","t","e","I","n","v","a","l","i","d","C","H","A","R","A","C","T","E","R","S"," ">>)
    /\ Len(k_result.events) = 2
    /\ k_result.events[2].op = "critical"
    /\ k_result.events[2].title = "Invalid alias"

====
